---------------------------- MODULE Spec2Model ----------------------------
(***************************************************************************)
(* Model of src/app.js: the Tambula ticket service.                        *)
(*                                                                         *)
(*   SpecGen  runs generateTicket() one loop iteration at a time.          *)
(*   Spec     runs the HTTP handlers (register, login, logout, create and  *)
(*            fetch tickets) over the two stores, one step per piece of    *)
(*            code between two awaits.                                     *)
(***************************************************************************)
EXTENDS Integers, Sequences, FiniteSets, TLC

VARIABLES
    gen,        \* generateTicket's locals: pc, i, j, columns, row, ticketData
    rnd,        \* the values Math.random() returns to generateTicket, in order
    draws,      \* how many Math.random() calls generateTicket has made
    users,      \* the User collection (set of documents)
    tickets,    \* the Ticket collection, in insertion order
    reqs,       \* the HTTP requests: arguments, handler position, locals, response
    now         \* the latest value Date.now() returned

vars == <<gen, rnd, draws, users, tickets, reqs, now>>

(***************************************************************************)
(* Bounds of the model.                                                    *)
(***************************************************************************)
\* Math.random() returns one of 0/RandDen .. (RandDen-1)/RandDen in SpecGen.
RandDen == 10
\* The values Math.random() returns in SpecGen repeat with this period.
RandLen == 2

(***************************************************************************)
(* generateTicket, src/app.js:192-217                                      *)
(***************************************************************************)
MaxNumber == 90
NumColumns == 9
NumRows == 3
ColumnWidth == 10

\* The marker 'x' pushed for an empty pool; 0 stands for it (no number is 0).
Blank == 0

\* Variant: the traditional split 1-9, 10-19, ..., 80-90
ColumnOfTraditional(i) == IF i = MaxNumber THEN NumColumns - 1 ELSE i \div ColumnWidth

\* Math.floor((i - 1) / 10)
ColumnOf(i) == (i - 1) \div ColumnWidth

\* Math.floor(Math.random() * length), Math.random() = k / den
RandomIndex(k, den, length) == (k * length) \div den

\* Variant: the element is read but not removed (slice for splice)
SpliceKeep(seq, index) == seq

\* seq.splice(index, 1): the sequence without its element at 0-based index
Splice(seq, index) ==
    [n \in 1..(Len(seq) - 1) |-> IF n <= index THEN seq[n] ELSE seq[n + 1]]

\* State of generateTicket after `const columns = [[], ..., []]`
GenStart ==
    [pc |-> "build", i |-> 1, j |-> 0,
     columns |-> [c \in 1..NumColumns |-> <<>>],
     row |-> <<>>, ticketData |-> <<>>]

\* One iteration of `for (let i = 1; i <= 90; i++)`
BuildStep(g) ==
    LET column == ColumnOf(g.i)
        pushed == [g.columns EXCEPT ![column + 1] = Append(@, g.i)]
    IN  IF g.i < MaxNumber
        THEN [g EXCEPT !.columns = pushed, !.i = g.i + 1]
        ELSE [g EXCEPT !.columns = pushed, !.i = 0, !.pc = "fill"]

\* One iteration of `for (let j = 0; j < 9; j++)`, and the end of the row
\* (ticketData.push(row)) with the last column; k/den is Math.random()
CellStep(g, k, den) ==
    LET pool == g.columns[g.j + 1]
        randomIndex == RandomIndex(k, den, Len(pool))
        cell == IF Len(pool) > 0 THEN pool[randomIndex + 1] ELSE Blank
        columns2 == IF Len(pool) > 0
                    THEN [g.columns EXCEPT ![g.j + 1] = Splice(pool, randomIndex)]
                    ELSE g.columns
        row2 == Append(g.row, cell)
    IN  IF g.j + 1 < NumColumns
        THEN [g EXCEPT !.columns = columns2, !.row = row2, !.j = g.j + 1]
        ELSE [g EXCEPT !.columns = columns2, !.row = <<>>, !.j = 0,
                       !.ticketData = Append(g.ticketData, row2),
                       !.i = g.i + 1,
                       !.pc = IF g.i + 1 < NumRows THEN "fill" ELSE "done"]

\* The n-th (0-based) value of a periodic stream of Math.random() values
StreamAt(stream, n) == stream[(n % Len(stream)) + 1]

\* The pools the first loop builds: the numbers of each column, ascending
BuiltColumns ==
    [c \in 1..NumColumns |->
        SelectSeq([i \in 1..MaxNumber |-> i], LAMBDA i : ColumnOf(i) = c - 1)]

\* State of generateTicket when the first loop has ended
GenFilling == [GenStart EXCEPT !.pc = "fill", !.i = 0, !.columns = BuiltColumns]

\* The second loop run to the return, Math.random() reading `stream`
RECURSIVE RunGen(_, _, _, _)
RunGen(g, stream, n, den) ==
    IF g.pc = "done" THEN g.ticketData
    ELSE RunGen(CellStep(g, StreamAt(stream, n), den), stream, n + 1, den)

generateTicket(stream, den) == RunGen(GenFilling, stream, 0, den)

RandStreams == [1..RandLen -> 0..(RandDen - 1)]

GenBuild ==
    /\ gen.pc = "build"
    /\ gen' = BuildStep(gen)
    /\ UNCHANGED <<rnd, draws, users, tickets, reqs, now>>

GenCell ==
    /\ gen.pc = "fill"
    /\ gen' = CellStep(gen, StreamAt(rnd, draws), RandDen)
    /\ draws' = draws + 1
    /\ UNCHANGED <<rnd, users, tickets, reqs, now>>

InitGen ==
    /\ gen = GenStart
    /\ rnd \in RandStreams
    /\ draws = 0
    /\ users = {}
    /\ tickets = <<>>
    /\ reqs = <<>>
    /\ now = 0

NextGen == GenBuild \/ GenCell

SpecGen == InitGen /\ [][NextGen]_vars

(***************************************************************************)
(* Bounds of the service model.                                            *)
(***************************************************************************)
\* Number of register, login and logout requests received in Spec.
MaxReqs == 3
\* Number of logout and ticket requests received in SpecTickets.
MaxTicketReqs == 2
\* Date.now() returns one of 0..MaxClock, never less than before.
MaxClock == 1
\* The POST /tickets requests ask for at most this many tickets in all.
MaxNumTickets == 2
\* Math.random() returns one of 0/SvcDen .. (SvcDen-1)/SvcDen in Spec.
SvcDen == 2

(***************************************************************************)
(* Request inputs.  Strings that the code trims, lowercases or splits are  *)
(* sequences of characters; the others are strings.                        *)
(***************************************************************************)
Usernames == {<<"a">>, <<" ", "a">>, <<"b">>}
Passwords == {"secret1", "secret2"}
Emails == {<<"a", "@", "x.com">>, <<"A", "@", "x.com">>, <<"b", "@", "x.com">>}
\* Register bodies: every valid combination, and one body per failing field
RegisterBodies ==
    [username : Usernames, password : {"secret1"}, email : Emails, name : {<<"A">>}]
    \cup {[username |-> <<" ">>, password |-> "secret1",
           email |-> <<"a", "@", "x.com">>, name |-> <<"A">>],
          [username |-> <<"a">>, password |-> "short",
           email |-> <<"a", "@", "x.com">>, name |-> <<"A">>],
          [username |-> <<"a">>, password |-> "secret1",
           email |-> <<"a", "x.com">>, name |-> <<"A">>],
          [username |-> <<"a">>, password |-> "secret1",
           email |-> <<"a", "@", "x.com">>, name |-> <<" ">>]}
\* The <<page, limit>> of a fetch
Pagings == {<<1, 10>>, <<2, 1>>}

(***************************************************************************)
(* express-validator chains, src/app.js:44-49                              *)
(***************************************************************************)
IsSpace(c) == c = " "

RECURSIVE TrimLeft(_)
TrimLeft(s) == IF s # <<>> /\ IsSpace(Head(s)) THEN TrimLeft(Tail(s)) ELSE s

RECURSIVE TrimRight(_)
TrimRight(s) ==
    IF s # <<>> /\ IsSpace(s[Len(s)]) THEN TrimRight(SubSeq(s, 1, Len(s) - 1)) ELSE s

\* .trim()
Trim(s) == TrimRight(TrimLeft(s))

\* .isLength({ min: 6 })
MinPasswordLength == 6

\* .isEmail(): one "@" with something on both sides
IsEmail(e) ==
    /\ Cardinality({n \in 1..Len(e) : e[n] = "@"}) = 1
    /\ e[1] # "@"
    /\ e[Len(e)] # "@"

LowerCase(c) == IF c = "A" THEN "a" ELSE IF c = "B" THEN "b" ELSE c

\* .normalizeEmail(): lowercases the address
NormalizeEmail(e) == [n \in 1..Len(e) |-> LowerCase(e[n])]

\* validationResult(req).array(): the fields whose chain failed
ValidationErrors(username, password, email, name) ==
    (IF Trim(username) = <<>> THEN <<"username">> ELSE <<>>)
    \o (IF Len(password) < MinPasswordLength THEN <<"password">> ELSE <<>>)
    \o (IF ~IsEmail(email) THEN <<"email">> ELSE <<>>)
    \o (IF Trim(name) = <<>> THEN <<"name">> ELSE <<>>)

(***************************************************************************)
(* bcrypt and jsonwebtoken                                                 *)
(***************************************************************************)
SaltRounds == 10
Salts == {"salt1"}

\* bcrypt.hash(password, 10) with the salt it drew
BcryptHash(password, rounds, salt) ==
    [salt |-> salt, rounds |-> rounds, digest |-> <<salt, rounds, password>>]

\* bcrypt.compare(password, hash)
BcryptCompare(password, hash) == hash.digest = <<hash.salt, hash.rounds, password>>

SecretKey == "secret-key"
WrongKey == "wrong-key"

\* jwt.sign({ username }, key)
JwtSign(username, key) == [username |-> username, key |-> key]

\* jwt.verify(token, key) reports no error
JwtVerify(token, key) == token.key = key

\* A missing token (undefined)
NoToken == [username |-> <<>>, key |-> ""]

\* req.headers.authorization?.split(' ')[1]; the header is a sequence of words
HeaderToken(header) == IF Len(header) >= 2 THEN header[2] ELSE NoToken

(***************************************************************************)
(* Responses                                                               *)
(***************************************************************************)
Response(status, shape, message, token, list) ==
    [status |-> status, shape |-> shape, message |-> message, token |-> token, list |-> list]

Message(status, message) == Response(status, "message", message, NoToken, <<>>)

NoResponse == Response(0, "none", "", NoToken, <<>>)

\* src/app.js:55
ValidationFailed(errors) == Response(400, "errors", "", NoToken, errors)
\* src/app.js:63
Conflict == Message(400, "Username or email already exists")
\* src/app.js:70
Registered == Message(200, "User registered successfully")
\* src/app.js:219-223, the error handler middleware
ErrorHandler == Message(500, "An error occurred")
\* Variant: an answer of its own for the unknown username
LoginUnknownUserDistinct == Message(404, "User not found")

\* src/app.js:85
LoginUnknownUser == Message(401, "Invalid username or password")
\* src/app.js:91
LoginWrongPassword == Message(401, "Invalid username or password")
\* src/app.js:97
LoginOk(token) == Response(200, "token", "", token, <<>>)
\* src/app.js:107 and 112
NoTokenProvided == Message(401, "Access denied. No token provided")
InvalidToken == Message(401, "Invalid token")
\* src/app.js:133
LoggedOut == Message(200, "Logged out successfully")
\* src/app.js:99, 135, 160, 186
AnErrorOccurred == Message(500, "An error occurred")
\* res.json(tickets)
TicketList(list) == Response(200, "list", "", NoToken, list)

(***************************************************************************)
(* The requests                                                            *)
(***************************************************************************)
NoUser == [username |-> <<>>, password |-> BcryptHash("", 0, ""), email |-> <<>>, name |-> <<>>]

NoDoc == [ticketId |-> <<>>, ticketData |-> <<>>]

NoArgs ==
    [username |-> <<>>, password |-> "", email |-> <<>>, name |-> <<>>,
     header |-> <<>>, numTickets |-> 0, id |-> <<>>, page |-> 0, limit |-> 0]

\* Handler locals: the sanitised body fields, user, isPasswordValid,
\* existingUser, the loop counter i, the tickets array, and the document
\* handed to Ticket.create; `error` is the exception caught, if any.
\* `after` is history: the requests already answered when this one arrived
NoLocals ==
    [username |-> <<>>, email |-> <<>>, name |-> <<>>,
     existingUser |-> FALSE, user |-> NoUser, isPasswordValid |-> FALSE,
     i |-> 0, tickets |-> <<>>, doc |-> NoDoc, error |-> "", after |-> {}]

Request(kind, args, pc, loc, res) ==
    [kind |-> kind, args |-> args, pc |-> pc, loc |-> loc, res |-> res]

Respond(r, loc, res) == [reqs EXCEPT ![r] = [@ EXCEPT !.pc = "done", !.loc = loc, !.res = res]]

Slots == 1..Len(reqs)

Answered == {q \in Slots : reqs[q].pc = "done"}

(***************************************************************************)
(* verifyToken, src/app.js:104-118                                         *)
(***************************************************************************)
\* Variant: the signature is not verified
VerifyTokenPresenceOnly(header) == IF HeaderToken(header) = NoToken THEN "none" ELSE "ok"

\* Variant: a token that a logout was answered 200 for is refused
VerifyTokenRevoking(header) ==
    IF HeaderToken(header) = NoToken THEN "none"
    ELSE IF ~JwtVerify(HeaderToken(header), SecretKey) THEN "invalid"
    ELSE IF \E q \in Slots : /\ reqs[q].kind = "logout"
                              /\ reqs[q].res.status = 200
                              /\ HeaderToken(reqs[q].args.header) = HeaderToken(header)
         THEN "invalid"
    ELSE "ok"

\* "ok" when next() is called, otherwise which 401 is answered
VerifyToken(header) ==
    IF HeaderToken(header) = NoToken THEN "none"
    ELSE IF ~JwtVerify(HeaderToken(header), SecretKey) THEN "invalid"
    ELSE "ok"

Rejected(verdict) == IF verdict = "none" THEN NoTokenProvided ELSE InvalidToken

\* The tokens login has handed out so far
IssuedTokens ==
    {reqs[q].res.token : q \in {p \in Slots : reqs[p].kind = "login" /\ reqs[p].res.status = 200}}

\* The Authorization headers a client can send
Headers ==
    {<<>>, <<"Bearer", JwtSign(<<"a">>, WrongKey)>>}
    \cup {<<"Bearer", t>> : t \in IssuedTokens}

(***************************************************************************)
(* POST /register, src/app.js:42-75                                        *)
(***************************************************************************)
\* The request arrives: validation and sanitisation, then
\* User.findOne({ $or: [{ username }, { email }] })
Register(username, password, email, name) ==
    LET args == [NoArgs EXCEPT !.username = username, !.password = password,
                               !.email = email, !.name = name]
        errors == ValidationErrors(username, password, email, name)
        loc == [NoLocals EXCEPT !.username = Trim(username),
                                !.email = NormalizeEmail(email),
                                !.name = Trim(name)]
        existingUser == \E u \in users : u.username = loc.username \/ u.email = loc.email
    IN  /\ reqs' = Append(reqs,
              IF errors # <<>>
              THEN Request("register", args, "done", NoLocals, ValidationFailed(errors))
              ELSE IF existingUser
              THEN Request("register", args, "done",
                           [loc EXCEPT !.existingUser = TRUE], Conflict)
              ELSE Request("register", args, "create", loc, NoResponse))
        /\ UNCHANGED <<gen, rnd, draws, users, tickets, now>>

\* The unique indexes of userSchema (src/app.js:27, 29) refuse the insert
DuplicateKey(doc) == \E u \in users : u.username = doc.username \/ u.email = doc.email

\* bcrypt.hash, then User.create: the insert happens, or the unique index
\* throws and next(error) reaches the error handler
RegisterCreate(r, salt) ==
    LET loc == reqs[r].loc
        hashedPassword == BcryptHash(reqs[r].args.password, SaltRounds, salt)
        newUser == [username |-> loc.username, password |-> hashedPassword,
                    email |-> loc.email, name |-> loc.name]
    IN  /\ reqs[r].kind = "register"
        /\ reqs[r].pc = "create"
        /\ IF DuplicateKey(newUser)
           THEN /\ reqs' = Respond(r, [loc EXCEPT !.error = "E11000"], ErrorHandler)
                /\ users' = users
           ELSE /\ reqs' = Respond(r, loc, Registered)
                /\ users' = users \cup {newUser}
        /\ UNCHANGED <<gen, rnd, draws, tickets, now>>

(***************************************************************************)
(* POST /login, src/app.js:78-101                                          *)
(***************************************************************************)
Login(username, password) ==
    LET args == [NoArgs EXCEPT !.username = username, !.password = password]
        found == {u \in users : u.username = username}
        user == IF found = {} THEN NoUser ELSE CHOOSE u \in found : TRUE
        isPasswordValid == found # {} /\ BcryptCompare(password, user.password)
        loc == [NoLocals EXCEPT !.user = user, !.isPasswordValid = isPasswordValid,
                                !.after = Answered]
    IN  /\ reqs' = Append(reqs,
              Request("login", args, "done", loc,
                      IF found = {} THEN LoginUnknownUser
                      ELSE IF ~isPasswordValid THEN LoginWrongPassword
                      ELSE LoginOk(JwtSign(user.username, SecretKey))))
        /\ UNCHANGED <<gen, rnd, draws, users, tickets, now>>

(***************************************************************************)
(* POST /logout, src/app.js:121-137                                        *)
(***************************************************************************)
Logout(header) ==
    LET args == [NoArgs EXCEPT !.header = header]
        verdict == VerifyToken(header)
    IN  /\ reqs' = Append(reqs,
              Request("logout", args, "done", NoLocals,
                      IF verdict # "ok" THEN Rejected(verdict)
                      ELSE IF HeaderToken(header) = NoToken
                      THEN Message(401, "User is already logged out")
                      ELSE LoggedOut))
        /\ UNCHANGED <<gen, rnd, draws, users, tickets, now>>

(***************************************************************************)
(* generateUniqueTicketId, src/app.js:165-170                              *)
(***************************************************************************)
Radix == 36
RandomChars == 5

\* n.toString(36) of a non-negative integer, as its digits
RECURSIVE ToString36(_)
ToString36(n) == IF n < Radix THEN <<n>> ELSE Append(ToString36(n \div Radix), n % Radix)

\* The digits after "0." of (k/den).toString(36), at most `count` of them
RECURSIVE Fraction36(_, _, _)
Fraction36(k, den, count) ==
    IF k = 0 \/ count = 0 THEN <<>>
    ELSE <<(k * Radix) \div den>> \o Fraction36((k * Radix) % den, den, count - 1)

\* `${timestamp}${random}`, Math.random() = k/den
generateUniqueTicketId(timestamp, k, den) ==
    ToString36(timestamp) \o Fraction36(k, den, RandomChars)

(***************************************************************************)
(* POST /tickets, src/app.js:141-162                                       *)
(***************************************************************************)
\* generateTicket() when every Math.random() call in it returns k/SvcDen
TicketFor == [k \in 0..(SvcDen - 1) |-> generateTicket(<<k>>, SvcDen)]

\* The loop from its test `i < numTickets` to the next await or response;
\* k/SvcDen is what Math.random() returns during the iteration and t what
\* Date.now() returns
TicketsLoop(req, loc, k, t) ==
    IF loc.i < req.args.numTickets
    THEN [req EXCEPT !.pc = "create",
                     !.loc = [loc EXCEPT !.doc =
                        [ticketId |-> generateUniqueTicketId(t, k, SvcDen),
                         ticketData |-> TicketFor[k]]]]
    ELSE [req EXCEPT !.pc = "done", !.loc = loc, !.res = TicketList(loc.tickets)]

PostTickets(header, numTickets, k, t) ==
    LET args == [NoArgs EXCEPT !.header = header, !.numTickets = numTickets]
        verdict == VerifyToken(header)
    IN  /\ reqs' = Append(reqs,
              IF verdict # "ok"
              THEN Request("postTickets", args, "done", NoLocals, Rejected(verdict))
              ELSE TicketsLoop(Request("postTickets", args, "loop", NoLocals, NoResponse),
                               NoLocals, k, t))
        /\ now' = IF verdict = "ok" /\ numTickets > 0 THEN t ELSE now
        /\ UNCHANGED <<gen, rnd, draws, users, tickets>>

\* The document Ticket.create stores; `by` and `seq` stand for its _id
StoredTicket(r, doc) ==
    [ticketId |-> doc.ticketId, ticketData |-> doc.ticketData,
     by |-> r, seq |-> reqs[r].loc.i]

\* Ticket.create resolved: push, i++, and on to the next iteration
TicketCreated(r, k, t) ==
    LET loc == reqs[r].loc
        loc2 == [loc EXCEPT !.tickets = Append(@, loc.doc), !.i = @ + 1, !.doc = NoDoc]
    IN  /\ reqs[r].kind = "postTickets"
        /\ reqs[r].pc = "create"
        /\ tickets' = Append(tickets, StoredTicket(r, loc.doc))
        /\ reqs' = [reqs EXCEPT ![r] = TicketsLoop(reqs[r], loc2, k, t)]
        /\ now' = IF loc2.i < reqs[r].args.numTickets THEN t ELSE now
        /\ UNCHANGED <<gen, rnd, draws, users>>

\* Variant: the catch block deletes what the request had stored
TicketsRolledBack(r) == SelectSeq(tickets, LAMBDA t : t.by # r)

\* What the catch block leaves in the Ticket collection
TicketsAfterFailure(r) == tickets

\* Ticket.create rejected: the catch block answers 500
TicketCreateFailed(r) ==
    /\ reqs[r].kind = "postTickets"
    /\ reqs[r].pc = "create"
    /\ tickets' = TicketsAfterFailure(r)
    /\ reqs' = Respond(r, [reqs[r].loc EXCEPT !.error = "store"], AnErrorOccurred)
    /\ UNCHANGED <<gen, rnd, draws, users, now>>

(***************************************************************************)
(* GET /tickets/:id, src/app.js:174-188                                    *)
(***************************************************************************)
\* Ticket.find({ ticketId: id }).skip(skip).limit(limit)
Find(id, skip, limit) ==
    LET matching == SelectSeq(tickets, LAMBDA t : t.ticketId = id)
    IN  SubSeq(matching, skip + 1,
               IF skip + limit < Len(matching) THEN skip + limit ELSE Len(matching))

\* The ids a client can ask for: those it was given, and one never given
KnownIds ==
    {<<Radix - 1>>} \cup {tickets[n].ticketId : n \in 1..Len(tickets)}

GetTickets(header, id, page, limit) ==
    LET args == [NoArgs EXCEPT !.header = header, !.id = id, !.page = page, !.limit = limit]
        verdict == VerifyToken(header)
    IN  /\ reqs' = Append(reqs,
              Request("getTickets", args, "done", NoLocals,
                      IF verdict # "ok" THEN Rejected(verdict)
                      ELSE TicketList(Find(id, (page - 1) * limit, limit))))
        /\ UNCHANGED <<gen, rnd, draws, users, tickets, now>>

Init ==
    /\ gen = GenStart
    /\ rnd = <<0>>
    /\ draws = 0
    /\ users = {}
    /\ tickets = <<>>
    /\ reqs = <<>>
    /\ now = 0

\* Room for one more request
MoreAuth == Len(reqs) < MaxReqs

NextAuth ==
    \/ MoreAuth /\ \E b \in RegisterBodies : Register(b.username, b.password, b.email, b.name)
    \/ \E r \in Slots, salt \in Salts : RegisterCreate(r, salt)
    \/ MoreAuth /\ \E u \in Usernames, p \in Passwords : Login(u, p)
    \/ MoreAuth /\ \E h \in Headers : Logout(h)

Spec == Init /\ [][NextAuth]_vars

\* The service after "a" has registered and logged in: the state Spec
\* reaches by Register, RegisterCreate and Login
RegisteredA ==
    [username |-> <<"a">>, password |-> BcryptHash("secret1", SaltRounds, "salt1"),
     email |-> <<"a", "@", "x.com">>, name |-> <<"A">>]

LoggedIn ==
    /\ users = {RegisteredA}
    /\ reqs = <<
          Request("register",
                  [NoArgs EXCEPT !.username = <<"a">>, !.password = "secret1",
                                 !.email = <<"a", "@", "x.com">>, !.name = <<"A">>],
                  "done",
                  [NoLocals EXCEPT !.username = <<"a">>,
                                   !.email = <<"a", "@", "x.com">>, !.name = <<"A">>],
                  Registered),
          Request("login",
                  [NoArgs EXCEPT !.username = <<"a">>, !.password = "secret1"],
                  "done",
                  [NoLocals EXCEPT !.user = RegisteredA, !.isPasswordValid = TRUE,
                                   !.after = {1}],
                  LoginOk(JwtSign(<<"a">>, SecretKey)))>>
    /\ tickets = <<>>
    /\ now = 0

InitTickets ==
    /\ gen = GenStart
    /\ rnd = <<0>>
    /\ draws = 0
    /\ LoggedIn

\* The tickets asked for so far
RECURSIVE SumNumTickets(_)
SumNumTickets(n) == IF n = 0 THEN 0 ELSE reqs[n].args.numTickets + SumNumTickets(n - 1)

Requested == SumNumTickets(Len(reqs))

\* Room for one more request after the two of LoggedIn
MoreTickets == Len(reqs) < 2 + MaxTicketReqs

NextTickets ==
    \/ MoreTickets /\ \E h \in Headers : Logout(h)
    \/ MoreTickets /\ \E h \in Headers, n \in 0..(MaxNumTickets - Requested),
                          k \in 0..(SvcDen - 1), t \in now..MaxClock :
          PostTickets(h, n, k, t)
    \/ \E r \in Slots, k \in 0..(SvcDen - 1), t \in now..MaxClock : TicketCreated(r, k, t)
    \/ \E r \in Slots : TicketCreateFailed(r)
    \/ MoreTickets /\ \E h \in Headers, id \in KnownIds, paging \in Pagings :
          GetTickets(h, id, paging[1], paging[2])

SpecTickets == InitTickets /\ [][NextTickets]_vars

(***************************************************************************)
(* Claims about generateTicket (checked under SpecGen)                     *)
(***************************************************************************)
\* The first loop leaves the pools that BuiltColumns states in closed form.
BuildLoopResult == gen.pc = "fill" /\ draws = 0 => gen = GenFilling

\* generateTicket returns what the operator generateTicket computes.
RunMatchesSteps == gen.pc = "done" => gen.ticketData = generateTicket(rnd, RandDen)

\* Every cell placed so far: <<row index, column index, value>>, 0-based
Cells ==
    {<<r - 1, c - 1, gen.ticketData[r][c]>> :
        r \in 1..Len(gen.ticketData), c \in 1..NumColumns}
    \cup {<<Len(gen.ticketData), c - 1, gen.row[c]>> : c \in 1..Len(gen.row)}

NumericCells == {x \in Cells : x[3] # Blank}

\* Refuted under Spec: LoggedIn, the state SpecTickets starts from, is a
\* state Spec reaches.
LoggedInUnreached == ~LoggedIn

\* C1 (as stated): every numeric cell of a returned ticket lies in its
\* column's range, column 0 in [1,9], column c (1..7) in [10c+1, 10c+10],
\* column 8 in [81,90].
C1_ColumnRangesAsStated ==
    gen.pc = "done" =>
        \A x \in NumericCells :
            IF x[2] = 0 THEN x[3] \in 1..9
            ELSE x[3] \in (10 * x[2] + 1)..(10 * x[2] + 10)

\* C1 (amended): every numeric cell of a returned ticket in column c, for
\* every c in 0..8, lies in [10c+1, 10c+10]; column 0 is [1,10].
C1_ColumnRanges ==
    gen.pc = "done" =>
        \A x \in NumericCells : x[3] \in (10 * x[2] + 1)..(10 * x[2] + 10)

\* A returned ticket that holds 10 in column 0.
C1_Witness ==
    /\ gen.pc = "done"
    /\ \E x \in NumericCells : x[2] = 0 /\ x[3] = 10

\* C2: each of the 3 rows of a returned ticket has exactly 5 numeric cells
\* and exactly 4 blank markers (15 numeric cells in the ticket).
C2_RowDensity ==
    gen.pc = "done" =>
        /\ Len(gen.ticketData) = 3
        /\ \A r \in 1..Len(gen.ticketData) :
              /\ Cardinality({c \in 1..NumColumns : gen.ticketData[r][c] # Blank}) = 5
              /\ Cardinality({c \in 1..NumColumns : gen.ticketData[r][c] = Blank}) = 4

\* The numbers still in column pool c (1-based)
PoolSet(c) == {gen.columns[c][n] : n \in 1..Len(gen.columns[c])}

\* C3: no number appears in two cells of the grid; a drawn number has left
\* its pool before the next draw, and the column pools are pairwise disjoint
\* and hold no number twice.
C3_NoDuplicates ==
    /\ \A x, y \in NumericCells : x[3] = y[3] => x = y
    /\ \A x \in NumericCells : \A c \in 1..NumColumns : x[3] \notin PoolSet(c)
    /\ \A c, d \in 1..NumColumns : c # d => PoolSet(c) \cap PoolSet(d) = {}
    /\ \A c \in 1..NumColumns : Cardinality(PoolSet(c)) = Len(gen.columns[c])

\* A returned ticket of 27 numbers whose first two Math.random() values were
\* equal, so that neighbouring draws asked for the same index.
C3_Witness ==
    /\ gen.pc = "done"
    /\ Cardinality(NumericCells) = NumRows * NumColumns
    /\ rnd[1] = rnd[2]

(***************************************************************************)
(* Claims about the register, login and logout handlers (checked under     *)
(* Spec)                                                                   *)
(***************************************************************************)
\* The body of request r passed validation
ValidBody(r) ==
    ValidationErrors(reqs[r].args.username, reqs[r].args.password,
                     reqs[r].args.email, reqs[r].args.name) = <<>>

\* Request r met a stored user with its username or email, at the
\* existence check or at the insert
MetConflict(r) == reqs[r].loc.existingUser \/ reqs[r].loc.error = "E11000"

\* C5: a valid register request whose username or email belongs to a stored
\* user is answered 400 with the conflict message, never 500, and adds no
\* user, also when two requests pass the existence check before either
\* inserts.
C5_ConflictIs400 ==
    \A r \in Slots :
        reqs[r].kind = "register" /\ reqs[r].pc = "done" /\ ValidBody(r) /\ MetConflict(r)
            => /\ reqs[r].res = Conflict
               /\ Cardinality(users)
                    = Cardinality({q \in Slots : reqs[q].res = Registered})

\* C6: a valid register request whose username and email are not stored is
\* answered 200 and stores the user, and every login that arrives after
\* that answer with the same username and password is answered 200 with a
\* token carrying that username.
C6_RegisterThenLogin ==
    /\ \A r \in Slots :
          reqs[r].kind = "register" /\ reqs[r].pc = "done" /\ ValidBody(r)
            /\ ~reqs[r].loc.existingUser
              => /\ reqs[r].res = Registered
                 /\ \E u \in users : u.username = reqs[r].loc.username
    /\ \A q, r \in Slots :
          /\ reqs[q].kind = "register" /\ reqs[q].res = Registered
          /\ reqs[r].kind = "login" /\ q \in reqs[r].loc.after
          /\ reqs[r].args.username = reqs[q].args.username
          /\ reqs[r].args.password = reqs[q].args.password
          => /\ reqs[r].res.status = 200
             /\ reqs[r].res.token.username = reqs[q].args.username

\* Login request r found no user / found one whose password did not match
UnknownUsername(r) == reqs[r].kind = "login" /\ reqs[r].loc.user = NoUser
WrongPassword(r) ==
    reqs[r].kind = "login" /\ reqs[r].loc.user # NoUser /\ ~reqs[r].loc.isPasswordValid

\* C7: a login with an unknown username and a login with a known username
\* and a wrong password get the same response, status 401 and the same body.
C7_UniformLoginFailure ==
    \A q, r \in Slots :
        UnknownUsername(q) /\ WrongPassword(r)
            => reqs[q].res = reqs[r].res /\ reqs[q].res.status = 401

\* Both failures have happened, the wrong password against a stored user.
C7_Witness ==
    \E q, r \in Slots :
        /\ UnknownUsername(q) /\ WrongPassword(r)
        /\ reqs[r].loc.user \in users

(***************************************************************************)
(* Claims about verifyToken and the ticket handlers (checked under         *)
(* SpecTickets)                                                            *)
(***************************************************************************)
Protected(r) == reqs[r].kind \in {"postTickets", "getTickets"}

\* The request carries a token whose signature verifies
CarriesValidToken(r) ==
    /\ HeaderToken(reqs[r].args.header) # NoToken
    /\ HeaderToken(reqs[r].args.header).key = SecretKey

\* C4: a POST /tickets or GET /tickets/:id request without a token, or with
\* a token whose signature does not verify, is answered 401 and its handler
\* never runs: it has no locals, and no stored ticket or user is its doing.
C4_AuthGate ==
    \A r \in Slots :
        Protected(r) /\ ~CarriesValidToken(r)
            => /\ reqs[r].pc = "done"
               /\ reqs[r].res.status = 401
               /\ reqs[r].loc = NoLocals
               /\ \A n \in 1..Len(tickets) : tickets[n].by # r
               /\ users = {RegisteredA}

\* A forged token was refused while the Ticket Store held a ticket.
C4_Witness ==
    \E r \in Slots :
        /\ Protected(r)
        /\ HeaderToken(reqs[r].args.header) # NoToken
        /\ ~CarriesValidToken(r)
        /\ reqs[r].res.status = 401
        /\ Len(tickets) > 0

\* C8: logout does not invalidate a token: no request carrying a token that
\* login issued is answered 401, also after a successful logout with it.
C8_LogoutKeepsToken ==
    \A r \in Slots :
        reqs[r].kind \in {"logout", "postTickets", "getTickets"}
          /\ HeaderToken(reqs[r].args.header) \in IssuedTokens
            => reqs[r].res.status # 401

\* A ticket request was answered 200 with a token after the logout with it.
C8_Witness ==
    \E q, r \in Slots :
        /\ q < r
        /\ reqs[q].kind = "logout" /\ reqs[q].res = LoggedOut
        /\ Protected(r) /\ reqs[r].res.status = 200
        /\ HeaderToken(reqs[r].args.header) = HeaderToken(reqs[q].args.header)

\* C9: no two stored tickets have the same ticketId, so a fetch of a created
\* id with page=1 and limit=10 returns exactly that one ticket.
C9_UniqueTicketIds ==
    /\ \A m, n \in 1..Len(tickets) : m # n => tickets[m].ticketId # tickets[n].ticketId
    /\ \A r \in Slots :
          reqs[r].kind = "getTickets" /\ reqs[r].res.status = 200
            /\ reqs[r].args.page = 1 /\ reqs[r].args.limit = 10
            /\ reqs[r].res.list # <<>>
              => /\ Len(reqs[r].res.list) = 1
                 /\ reqs[r].res.list[1].ticketId = reqs[r].args.id

\* The {ticketId, ticketData} of the stored tickets request r created, in
\* the order they were stored
Persisted(r) ==
    LET mine == SelectSeq(tickets, LAMBDA t : t.by = r)
    IN  [n \in 1..Len(mine) |->
            [ticketId |-> mine[n].ticketId, ticketData |-> mine[n].ticketData]]

\* C10: POST /tickets persists its tickets one at a time in order; when the
\* write of the k-th fails it answers 500 without a ticket list and the k-1
\* it wrote stay stored; it answers 200 only with all numTickets persisted.
C10_NotAtomic ==
    \A r \in Slots :
        reqs[r].kind = "postTickets" /\ CarriesValidToken(r)
            => /\ Persisted(r) = reqs[r].loc.tickets
               /\ Len(Persisted(r)) = reqs[r].loc.i
               /\ reqs[r].res.status \in {0, 200, 500}
               /\ reqs[r].res.status = 0 <=> reqs[r].pc = "create"
               /\ reqs[r].res.status = 500
                    => /\ reqs[r].res = AnErrorOccurred
                       /\ reqs[r].loc.error = "store"
                       /\ reqs[r].loc.i < reqs[r].args.numTickets
               /\ reqs[r].res.status = 200
                    => /\ Len(Persisted(r)) = reqs[r].args.numTickets
                       /\ reqs[r].res.list = Persisted(r)

\* A batch answered 500 after it had stored a ticket, which is still there.
C10_Witness ==
    \E r \in Slots :
        /\ reqs[r].kind = "postTickets"
        /\ reqs[r].res.status = 500
        /\ Len(Persisted(r)) >= 1

=============================================================================
